---- MODULE Spec2Model ----
(***************************************************************************)
(* Matching / group-formation engine of dad-circles-onboarding.            *)
(*                                                                         *)
(* The model follows src/api/matching.js: the POST /api/matching/run       *)
(* handler (runMatching -> runRealMatching) and the Firestore documents it *)
(* reads and writes (collections 'profiles' and 'groups').  A request is   *)
(* an async function: between two awaits it runs without interruption, at  *)
(* an await other requests may run.  Each action below is the code between *)
(* two awaits of one request.                                              *)
(*                                                                         *)
(* Modelling conventions                                                   *)
(*  - document ids are strings; Firestore returns the documents of a       *)
(*    query without orderBy in document-id order, which is the order of    *)
(*    SessionIds below;                                                    *)
(*  - a field that is absent from a document has the value undefined;      *)
(*  - new Date() is the variable now (a calendar year and month), which    *)
(*    the action Tick advances;                                            *)
(*  - a location key `${city}|${state_code}` is the pair of its parts      *)
(*    (city names are taken not to contain the separator).                 *)
(***************************************************************************)
EXTENDS Integers, Sequences, FiniteSets, TLC

VARIABLES profiles, groups, run, now, groupSeq, stats, daily, edit

vars == <<profiles, groups, run, now, groupSeq, stats, daily, edit>>

----------------------------------------------------------------------------
(* Bounds of the model *)

\* number of POST /api/matching/run requests that are made
NumRuns == 2

\* number of calendar months the clock advances
MaxTicks == 1

Runs == 1..NumRuns

----------------------------------------------------------------------------
(* Values *)

\* an absent optional string field or request parameter
undefined == "undefined"

\* the value getLifeStageFromUserJS returns for "no life stage"
null == "null"

\* group_id of a profile whose group_id field is absent
undefinedId == <<>>

\* group_id of a profile whose group_id field holds null
nullId == <<"null">>

\* an absent location
NoLocation == [city |-> undefined, state_code |-> undefined]

\* a time before the first request
NoTime == [year |-> 0, month |-> 0]

\* a number Date.now() returned (the model does not distinguish timestamps)
Timestamp == "Date.now()"

\* JavaScript truthiness of an optional string (request parameters)
Truthy(s) == s \notin {undefined, ""}

\* JavaScript truthiness of a profile's group_id
HasGroupId(g) == g \notin {undefinedId, nullId}

Min(a, b) == IF a <= b THEN a ELSE b

Range(s) == {s[i] : i \in 1..Len(s)}

----------------------------------------------------------------------------
(* Constants of the program *)

minGroupSize == 4

maxGroupSize == 6

\* the documented Matchability Threshold, in months
MaxAgeGap == 6

LifeStages == <<"Expecting", "Newborn", "Infant", "Toddler">>

----------------------------------------------------------------------------
(* The clock *)

StartNow == [year |-> 2024, month |-> 12]

MonthIndex(t) == t.year * 12 + (t.month - 1)

NextMonth(t) ==
    IF t.month = 12 THEN [year |-> t.year + 1, month |-> 1]
                    ELSE [year |-> t.year, month |-> t.month + 1]

----------------------------------------------------------------------------
(* Populations: the profiles documents the engine may find *)

SessionIds == << "test-session-01", "test-session-02", "test-session-03",
                 "test-session-04", "test-session-05", "test-session-06",
                 "test-session-07", "test-session-08", "test-session-09",
                 "test-session-10", "test-session-11", "test-session-12",
                 "test-session-13", "user-session-14" >>

Emails == << "dad-01@example.com", "dad-02@example.com", "dad-03@example.com",
             "dad-04@example.com", "dad-05@example.com", "dad-06@example.com",
             "dad-07@example.com", "dad-08@example.com", "dad-09@example.com",
             "dad-10@example.com", "dad-11@example.com", "dad-12@example.com",
             "dad-13@example.com", "dad-14@example.com" >>

Austin == [city |-> "Austin", state_code |-> "TX"]

Miami == [city |-> "Miami", state_code |-> "FL"]

Phoenix == [city |-> "Phoenix", state_code |-> "AZ"]

Expecting(year, month) ==
    [type |-> "expecting", birth_year |-> year, birth_month |-> month]

\* an existing child that is age months old at StartNow
Aged(age) ==
    LET m == MonthIndex(StartNow) - age
    IN  [type |-> "existing", birth_year |-> m \div 12, birth_month |-> (m % 12) + 1]

\* the i-th profile as seedTestData writes it (no group_id, no matched_at)
Dad(i, location, children) ==
    [location |-> location, children |-> children, matching_eligible |-> TRUE,
     email |-> Emails[i], group_id |-> undefinedId, matched_at |-> undefined]

\* the i-th profile while its onboarding is not complete: location and
\* child are known, matching_eligible is still false
Onboarding(i, location, children) ==
    [Dad(i, location, children) EXCEPT !.matching_eligible = FALSE]

\* a profile as createProfile writes it (onboarding not complete)
Newcomer ==
    [location |-> NoLocation, children |-> <<>>, matching_eligible |-> FALSE,
     email |-> undefined, group_id |-> undefinedId, matched_at |-> undefined]

\* the i-th profile after updateUserGroupAssignment(sessionId, null): the
\* group_id field is present and holds null
Unassigned(i, location, children) ==
    [Dad(i, location, children) EXCEPT !.group_id = nullId]

\* the documents of a population: the i-th profile is stored under SessionIds[i]
Collection(pop) ==
    [s \in {SessionIds[i] : i \in 1..Len(pop)} |->
        pop[CHOOSE i \in 1..Len(pop) : SessionIds[i] = s]]

\* five toddlers of one city, 19, 20, 21, 22 and 36 months old
ToddlerAges == <<21, 36, 19, 22, 20>>

ToddlerPopulation ==
    [i \in 1..Len(ToddlerAges) |-> Dad(i, Austin, <<Aged(ToddlerAges[i])>>)]

\* thirteen newborns of one city
NewbornAges == <<3, 0, 5, 1, 4, 2, 6, 0, 3, 5, 1, 4, 2>>

NewbornPopulation ==
    [i \in 1..Len(NewbornAges) |-> Dad(i, Austin, <<Aged(NewbornAges[i])>>)]

\* four expecting dads due April, May, June and July 2025, read in any order
DueMonths == {4, 5, 6, 7}

ExpectingPopulations ==
    {[i \in 1..4 |-> Dad(i, Austin, <<Expecting(2025, p[i])>>)] :
        p \in {q \in [1..4 -> DueMonths] : {q[i] : i \in 1..4} = DueMonths}}

\* two cities; a newborn that becomes an infant when the month changes; a
\* wide age gap among the infants; profiles the bucketing skips
VariedPopulations ==
    { << Dad(1, Austin, <<Aged(2)>>), Dad(2, Miami, <<Aged(1)>>),
         Dad(3, Austin, <<Aged(0)>>), Dad(4, Austin, <<Aged(5), Expecting(2025, 3)>>),
         Dad(5, Austin, <<Aged(3)>>), Dad(6, Phoenix, <<Expecting(2025, 2)>>),
         Dad(7, Austin, <<Aged(9)>>) >>,
      << Dad(1, Austin, <<Aged(17)>>), Dad(2, Austin, <<Aged(6)>>),
         Dad(3, Austin, <<Aged(8)>>), Dad(4, Austin, <<Aged(7)>>),
         Newcomer, Dad(6, Austin, <<Aged(40)>>) >>,
      << Dad(1, Miami, <<Expecting(2025, 1)>>), Dad(2, Miami, <<Expecting(2026, 1)>>),
         Dad(3, NoLocation, <<Expecting(2025, 1)>>), Dad(4, Miami, <<Aged(2)>>),
         Dad(5, Miami, <<>>), Unassigned(6, Miami, <<Expecting(2024, 12)>>),
         Dad(7, Miami, <<Aged(36)>>) >> }

\* two cities with four toddlers each
TwoCityPopulation ==
    << Dad(1, Miami, <<Aged(25)>>), Dad(2, Austin, <<Aged(19)>>),
       Dad(3, Austin, <<Aged(20)>>), Dad(4, Miami, <<Aged(26)>>),
       Dad(5, Austin, <<Aged(21)>>), Dad(6, Miami, <<Aged(27)>>),
       Dad(7, Miami, <<Aged(28)>>), Dad(8, Austin, <<Aged(22)>>) >>

\* users the bucketing skips: four without a location, one without
\* children, one whose first child is older than 36 months
DroppedPopulation ==
    << Dad(1, NoLocation, <<Expecting(2025, 3)>>), Dad(2, NoLocation, <<Expecting(2025, 4)>>),
       Dad(3, Austin, <<>>), Dad(4, NoLocation, <<Expecting(2025, 5)>>),
       Dad(5, Austin, <<Aged(40)>>), Dad(6, NoLocation, <<Expecting(2025, 6)>>) >>

Populations ==
    {ToddlerPopulation, NewbornPopulation, TwoCityPopulation, DroppedPopulation}
        \cup ExpectingPopulations \cup VariedPopulations

----------------------------------------------------------------------------
(* Pure functions of src/api/matching.js *)

ageInMonths(child, t) ==
    (t.year - child.birth_year) * 12 + (t.month - child.birth_month)

\* the classification with the boundaries given to the older stage
getLifeStageFromUserJSExclusive(user, t) ==
    IF user.children = <<>> THEN null
    ELSE LET primaryChild == user.children[1]
         IN  IF primaryChild.type = "expecting" THEN "Expecting"
             ELSE IF ageInMonths(primaryChild, t) < 6 THEN "Newborn"
             ELSE IF ageInMonths(primaryChild, t) < 18 THEN "Infant"
             ELSE IF ageInMonths(primaryChild, t) < 36 THEN "Toddler"
             ELSE null

getLifeStageFromUserJS(user, t) ==
    IF user.children = <<>> THEN null
    ELSE LET primaryChild == user.children[1]
         IN  IF primaryChild.type = "expecting" THEN "Expecting"
             ELSE IF ageInMonths(primaryChild, t) <= 6 THEN "Newborn"
             ELSE IF ageInMonths(primaryChild, t) <= 18 THEN "Infant"
             ELSE IF ageInMonths(primaryChild, t) <= 36 THEN "Toddler"
             ELSE null

\* getLifeStageFromUser of the cloud functions
functions_getLifeStageFromUser(user, t) ==
    IF user.children = <<>> THEN null
    ELSE LET primaryChild == user.children[1]
             currentYear  == t.year
             currentMonth == t.month
         IN  IF primaryChild.type = "expecting" THEN "Expecting"
             ELSE LET birthYear  == primaryChild.birth_year
                      birthMonth == primaryChild.birth_month
                      age == (currentYear - birthYear) * 12 + (currentMonth - birthMonth)
                  IN  IF age <= 6 THEN "Newborn"
                      ELSE IF age <= 18 THEN "Infant"
                      ELSE IF age <= 36 THEN "Toddler"
                      ELSE null

\* the number the comparator of sortUsersByAgeJS orders a user by: the due
\* date (new Date(year, month - 1), counted in months) or the child's age
SortKey(user, lifeStage, t) ==
    IF lifeStage = "Expecting"
    THEN user.children[1].birth_year * 12 + (user.children[1].birth_month - 1)
    ELSE ageInMonths(user.children[1], t)

\* Array.prototype.sort is stable: a user is placed behind the users whose
\* key is not greater (key is the function from users to their numbers)
RECURSIVE InsertByKey(_, _, _)

\* a sort that places a user in front of the users with the same key
InsertByKeyBeforeEqual(sorted, u, key) ==
    IF sorted = <<>> THEN <<u>>
    ELSE IF key[Head(sorted)] < key[u]
         THEN <<Head(sorted)>> \o InsertByKey(Tail(sorted), u, key)
         ELSE <<u>> \o sorted

InsertByKey(sorted, u, key) ==
    IF sorted = <<>> THEN <<u>>
    ELSE IF key[Head(sorted)] <= key[u]
         THEN <<Head(sorted)>> \o InsertByKey(Tail(sorted), u, key)
         ELSE <<u>> \o sorted

RECURSIVE SortByKey(_, _)
SortByKey(users, key) ==
    IF users = <<>> THEN <<>>
    ELSE InsertByKey(SortByKey(SubSeq(users, 1, Len(users) - 1), key),
                     users[Len(users)], key)

----------------------------------------------------------------------------
(* Step 1 of runRealMatching: the eligibility snapshot *)

\* the ids of the documents of a collection, in the order getDocs returns them
DocIds(col) == SelectSeq(SessionIds, LAMBDA s : s \in DOMAIN col)

\* getUnmatchedUsersJS without its filter on group_id
getUnmatchedUsersJSKeepingMatched(city, stateCode) ==
    SelectSeq(DocIds(profiles),
              LAMBDA s : /\ profiles[s].matching_eligible = TRUE
                         /\ (Truthy(city) /\ Truthy(stateCode)) =>
                               /\ profiles[s].location.city = city
                               /\ profiles[s].location.state_code = stateCode)

\* the query without its location conditions
getUnmatchedUsersJSOfAnyCity(city, stateCode) ==
    SelectSeq(DocIds(profiles),
              LAMBDA s : /\ profiles[s].matching_eligible = TRUE
                         /\ ~HasGroupId(profiles[s].group_id))

getUnmatchedUsersJS(city, stateCode) ==
    LET InQuery(s) ==
            /\ profiles[s].matching_eligible = TRUE
            /\ (Truthy(city) /\ Truthy(stateCode)) =>
                  /\ profiles[s].location.city = city
                  /\ profiles[s].location.state_code = stateCode
        eligibleUsers == SelectSeq(DocIds(profiles), InQuery)
    IN  SelectSeq(eligibleUsers, LAMBDA s : ~HasGroupId(profiles[s].group_id))

\* getUnmatchedUsers of the database module: the same query and the same
\* filter in JavaScript
database_getUnmatchedUsers(city, stateCode) ==
    LET InQuery(s) ==
            /\ profiles[s].matching_eligible = TRUE
            /\ (Truthy(city) /\ Truthy(stateCode)) =>
                  /\ profiles[s].location.city = city
                  /\ profiles[s].location.state_code = stateCode
        eligibleUsers == SelectSeq(DocIds(profiles), InQuery)
    IN  SelectSeq(eligibleUsers, LAMBDA s : ~HasGroupId(profiles[s].group_id))

\* getUnmatchedUsers of the cloud functions: the query itself has the
\* condition where('group_id', '==', null), which a document satisfies only
\* when its group_id field is present and holds null
functions_getUnmatchedUsers(city, stateCode) ==
    SelectSeq(DocIds(profiles),
              LAMBDA s : /\ profiles[s].matching_eligible = TRUE
                         /\ profiles[s].group_id = nullId
                         /\ (Truthy(city) /\ Truthy(stateCode)) =>
                               /\ profiles[s].location.city = city
                               /\ profiles[s].location.state_code = stateCode)

----------------------------------------------------------------------------
(* Step 2: buckets by location and life stage *)

\* the users that are not skipped when only the `continue` for a missing
\* life stage is there
BucketedKeepingUnlocated(users, t) ==
    SelectSeq(users, LAMBDA s : getLifeStageFromUserJS(profiles[s], t) # null)

\* the users that are not skipped by the two `continue` statements
Bucketed(users, t) ==
    SelectSeq(users, LAMBDA s : /\ profiles[s].location # NoLocation
                                /\ getLifeStageFromUserJS(profiles[s], t) # null)

\* the keys of locationLifeStageBuckets, in insertion order
RECURSIVE LocationKeys(_)
LocationKeys(users) ==
    IF users = <<>> THEN <<>>
    ELSE LET rest == LocationKeys(SubSeq(users, 1, Len(users) - 1))
             key  == profiles[users[Len(users)]].location
         IN  IF key \in Range(rest) THEN rest ELSE Append(rest, key)

\* a bucket that is keyed by the life stage only
BucketOfAnyLocation(users, t, location, lifeStage) ==
    SelectSeq(Bucketed(users, t),
              LAMBDA s : getLifeStageFromUserJS(profiles[s], t) = lifeStage)

\* locationLifeStageBuckets[locationKey][lifeStage]
Bucket(users, t, location, lifeStage) ==
    SelectSeq(Bucketed(users, t),
              LAMBDA s : /\ profiles[s].location = location
                         /\ getLifeStageFromUserJS(profiles[s], t) = lifeStage)

----------------------------------------------------------------------------
(* Step 3: sorting and chunking *)

\* sortUsersByAgeJS leaving the users in the order they were read
sortUsersByAgeJSUnsorted(users, lifeStage, t) == users

sortUsersByAgeJS(users, lifeStage, t) ==
    SortByKey(users, [s \in Range(users) |-> SortKey(profiles[s], lifeStage, t)])

\* the chunks the loop `for (i = 0; i < sortedUsers.length; i += maxGroupSize)`
\* takes from offset i on, up to its `break`
RECURSIVE ChunksFrom(_, _)

\* the chunk loop without its `break` on a chunk below the minimum
ChunksFromKeepingRemainder(sortedUsers, i) ==
    IF i >= Len(sortedUsers) THEN <<>>
    ELSE <<SubSeq(sortedUsers, i + 1, Min(i + maxGroupSize, Len(sortedUsers)))>>
            \o ChunksFrom(sortedUsers, i + maxGroupSize)

\* the chunk loop spreading the users evenly over the groups it needs
ChunksFromBalanced(sortedUsers, i) ==
    LET remaining == Len(sortedUsers) - i
        needed    == (remaining + maxGroupSize - 1) \div maxGroupSize
        size      == IF needed = 0 THEN 0 ELSE remaining \div needed
    IN  IF remaining < minGroupSize \/ size < minGroupSize THEN <<>>
        ELSE <<SubSeq(sortedUsers, i + 1, i + size)>>
                \o ChunksFrom(sortedUsers, i + size)

ChunksFrom(sortedUsers, i) ==
    IF i >= Len(sortedUsers) THEN <<>>
    ELSE LET chunk == SubSeq(sortedUsers, i + 1,
                             Min(i + maxGroupSize, Len(sortedUsers)))
         IN  IF Len(chunk) < minGroupSize THEN <<>>
             ELSE <<chunk>> \o ChunksFrom(sortedUsers, i + maxGroupSize)

\* the chunks of a bucket that is not held to the minimum group size
BucketChunksOfAnySize(users, lifeStage, t) ==
    IF users = <<>> THEN <<>>
    ELSE <<SubSeq(sortUsersByAgeJS(users, lifeStage, t), 1,
                  Min(maxGroupSize, Len(users)))>>

\* the chunks of one bucket
BucketChunks(users, lifeStage, t) ==
    IF Len(users) >= minGroupSize
    THEN ChunksFrom(sortUsersByAgeJS(users, lifeStage, t), 0)
    ELSE <<>>

\* the groupData object built for a chunk
groupData(chunk, location, lifeStage, groupSequence, testMode) ==
    [name |-> <<location.city, lifeStage, groupSequence>>,
     location |-> location,
     member_ids |-> chunk,
     member_emails |-> SelectSeq([i \in 1..Len(chunk) |-> profiles[chunk[i]].email],
                                 Truthy),
     status |-> "pending",
     emailed_member_ids |-> <<>>,
     test_mode |-> testMode,
     life_stage |-> lifeStage]

\* the groupData objects of one bucket, in the order of the chunk loop
BucketPlan(users, t, location, lifeStage, testMode) ==
    LET chunks == BucketChunks(Bucket(users, t, location, lifeStage), lifeStage, t)
    IN  [n \in 1..Len(chunks) |->
            groupData(chunks[n], location, lifeStage, n, testMode)]

RECURSIVE Concat(_)
Concat(seqs) == IF seqs = <<>> THEN <<>> ELSE Head(seqs) \o Concat(Tail(seqs))

\* the groupData objects of a run, in the order the two nested loops over
\* the location keys and the life stages reach them.  They depend on the
\* snapshot only, so the run carries them from the snapshot on.
Plan(users, t, testMode) ==
    LET keys == LocationKeys(Bucketed(users, t))
        n    == Len(LifeStages)
    IN  Concat([k \in 1..(Len(keys) * n) |->
                  BucketPlan(users, t, keys[((k - 1) \div n) + 1],
                             LifeStages[((k - 1) % n) + 1], testMode)])

----------------------------------------------------------------------------
(* Requests *)

\* req.body.city and req.body.stateCode
CityParams == {undefined, "", "Austin"}

StateCodeParams == {undefined, "", "TX"}

\* the validation with its second test left out
ValidationErrorOfCityOnly(city, stateCode) ==
    IF Truthy(city) /\ ~Truthy(stateCode)
    THEN "stateCode is required when city is provided"
    ELSE undefined

\* the error of the 400 response of runMatching, undefined when the request
\* body passes the validation
ValidationError(city, stateCode) ==
    IF Truthy(city) /\ ~Truthy(stateCode)
    THEN "stateCode is required when city is provided"
    ELSE IF Truthy(stateCode) /\ ~Truthy(city)
    THEN "city is required when stateCode is provided"
    ELSE undefined

\* the location filter of a request that passed the validation: the city
\* and state code when both are given, no filter otherwise
Scope(city, stateCode) ==
    IF Truthy(city) /\ Truthy(stateCode)
    THEN [city |-> city, state_code |-> stateCode]
    ELSE NoLocation

NoResult ==
    [groups_created |-> 0, users_matched |-> 0, users_unmatched |-> 0,
     summary |-> <<>>, groups |-> <<>>]

\* no response of GET /api/matching/stats yet
NoStats ==
    [total_users |-> 0, matched_users |-> 0, unmatched_users |-> 0,
     by_location |-> <<>>]

\* no updateProfile call is under way
NoEdit == [pc |-> "idle", sessionId |-> undefined, updated |-> Newcomer]

\* the daily job before it has run
NoDaily == [pc |-> "idle", cities |-> <<>>, checked |-> 0, matched |-> {}]

\* a request that has not been made
IdleRun ==
    [pc |-> "idle", scope |-> NoLocation, testMode |-> FALSE, now |-> NoTime,
     unmatchedUsers |-> <<>>, plan |-> <<>>, allGroups |-> <<>>,
     totalUsersMatched |-> 0, emailsProcessed |-> 0, result |-> NoResult, after |-> {},
     error |-> undefined, provider |-> undefined]

\* the result with users_matched taken to be full groups
ResultOfFullGroups(rn) ==
    [groups_created |-> Len(rn.allGroups),
     users_matched |-> Len(rn.allGroups) * maxGroupSize,
     users_unmatched |-> Len(rn.unmatchedUsers) - rn.totalUsersMatched,
     summary |-> <<"Created", Len(rn.allGroups), rn.totalUsersMatched,
                   Len(rn.unmatchedUsers) - rn.totalUsersMatched>>,
     groups |-> rn.allGroups]

\* the object runRealMatching returns after Step 4
Result(rn) ==
    [groups_created |-> Len(rn.allGroups),
     users_matched |-> rn.totalUsersMatched,
     users_unmatched |-> Len(rn.unmatchedUsers) - rn.totalUsersMatched,
     summary |-> <<"Created", Len(rn.allGroups), rn.totalUsersMatched,
                   Len(rn.unmatchedUsers) - rn.totalUsersMatched>>,
     groups |-> rn.allGroups]

Finished(rn) == [rn EXCEPT !.pc = "done", !.result = Result(rn)]

\* requests are numbered in the order in which they arrive
MayArrive(r) ==
    /\ run[r].pc = "idle"
    /\ \A q \in Runs : q < r => run[q].pc # "idle"

Init ==
    /\ \E pop \in Populations : profiles = Collection(pop)
    /\ groups = <<>>
    /\ run = [r \in Runs |-> IdleRun]
    /\ now = StartNow
    /\ groupSeq = 0
    /\ stats = NoStats
    /\ daily = NoDaily
    /\ edit = NoEdit

\* runMatching: the validation of the request body fails, status 400
RejectRun(r) ==
    /\ MayArrive(r)
    /\ \E city \in CityParams, stateCode \in StateCodeParams :
          /\ ValidationError(city, stateCode) # undefined
          /\ run' = [run EXCEPT ![r] = [@ EXCEPT !.pc = "rejected",
                                           !.error = ValidationError(city, stateCode)]]
    /\ UNCHANGED <<profiles, groups, now, groupSeq, stats, daily, edit>>

\* runMatching and runRealMatching up to the first write: validation,
\* Step 1, Step 2, and the returns that create no group
StartRun(r) ==
    /\ MayArrive(r)
    /\ \E city \in CityParams, stateCode \in StateCodeParams, testMode \in BOOLEAN :
          /\ ValidationError(city, stateCode) = undefined
          /\ LET unmatchedUsers == getUnmatchedUsersJS(city, stateCode)
                 started == [run[r] EXCEPT
                               !.scope = Scope(city, stateCode),
                               !.testMode = testMode, !.now = now,
                               !.unmatchedUsers = unmatchedUsers,
                               !.plan = Plan(unmatchedUsers, now, testMode),
                               !.after = {q \in Runs : run[q].pc = "done"}]
             IN  run' = [run EXCEPT ![r] =
                           IF unmatchedUsers = <<>>
                           THEN [started EXCEPT !.pc = "done",
                                    !.result = [NoResult EXCEPT !.summary =
                                                  <<"No unmatched users found">>]]
                           ELSE IF started.plan = <<>>
                           THEN Finished(started)
                           ELSE [started EXCEPT !.pc = "createGroup"]]
    /\ UNCHANGED <<profiles, groups, now, groupSeq, stats, daily, edit>>

\* createGroupJS: setDoc of the new group document
CreateGroup(r) ==
    /\ run[r].pc = "createGroup"
    /\ LET data    == run[r].plan[Len(run[r].allGroups) + 1]
           groupId == <<"group", groupSeq + 1>>
           newGroup == [group_id |-> groupId, created_at |-> Timestamp,
                        introduction_email_sent_at |-> undefined,
                        name |-> data.name, location |-> data.location,
                        member_ids |-> data.member_ids,
                        member_emails |-> data.member_emails,
                        status |-> data.status,
                        emailed_member_ids |-> data.emailed_member_ids,
                        test_mode |-> data.test_mode,
                        life_stage |-> data.life_stage]
       IN  /\ groups' = groups @@ (groupId :> newGroup)
           /\ groupSeq' = groupSeq + 1
           /\ run' = [run EXCEPT ![r] = [@ EXCEPT !.pc = "assignUsers",
                                            !.allGroups = Append(@, groupId)]]
    /\ UNCHANGED <<profiles, now, stats, daily, edit>>

\* createGroupJS: setDoc rejects; runRealMatching rethrows, status 500
CreateGroupFails(r) ==
    /\ run[r].pc = "createGroup"
    /\ run' = [run EXCEPT ![r] = [@ EXCEPT !.pc = "failed"]]
    /\ UNCHANGED <<profiles, groups, now, groupSeq, stats, daily, edit>>

\* assignUsersToGroupJS: the batch of profile updates commits (an update
\* of a document that does not exist makes the whole batch fail)
AssignUsers(r) ==
    /\ run[r].pc = "assignUsers"
    /\ LET k          == Len(run[r].allGroups)
           sessionIds == run[r].plan[k].member_ids
       IN  /\ Range(sessionIds) \subseteq DOMAIN profiles
           /\ profiles' = [s \in DOMAIN profiles |->
                             IF s \in Range(sessionIds)
                             THEN [profiles[s] EXCEPT !.group_id = run[r].allGroups[k],
                                                      !.matched_at = Timestamp]
                             ELSE profiles[s]]
           /\ run' = [run EXCEPT ![r] =
                        [@ EXCEPT !.totalUsersMatched = @ + Len(sessionIds),
                                  !.pc = IF k < Len(run[r].plan)
                                         THEN "createGroup" ELSE "sendEmails"]]
    /\ UNCHANGED <<groups, now, groupSeq, stats, daily, edit>>

\* assignUsersToGroupJS: batch.commit rejects; runRealMatching rethrows
AssignUsersFails(r) ==
    /\ run[r].pc = "assignUsers"
    /\ run' = [run EXCEPT ![r] = [@ EXCEPT !.pc = "failed"]]
    /\ UNCHANGED <<profiles, groups, now, groupSeq, stats, daily, edit>>

\* the calendar month changes
Tick ==
    /\ MonthIndex(now) - MonthIndex(StartNow) < MaxTicks
    /\ now' = NextMonth(now)
    /\ UNCHANGED <<profiles, groups, run, groupSeq, stats, daily, edit>>

----------------------------------------------------------------------------
(* Step 4: sendGroupEmailsJS *)

\* the write of the email results that also replaces the members of the group
MergeEmailResultWithMembers(groupId, emailed) ==
    IF groupId \in DOMAIN groups
    THEN [groups EXCEPT ![groupId] =
            [@ EXCEPT !.member_ids = emailed,
                      !.emailed_member_ids = emailed,
                      !.introduction_email_sent_at = Timestamp,
                      !.status = "active"]]
    ELSE groups

\* setDoc(groupRef, {...}, { merge: true }): the three fields are written
\* into the document, which is created when it does not exist
MergeEmailResult(groupId, emailed) ==
    IF groupId \in DOMAIN groups
    THEN [groups EXCEPT ![groupId] =
            [@ EXCEPT !.emailed_member_ids = emailed,
                      !.introduction_email_sent_at = Timestamp,
                      !.status = "active"]]
    ELSE groups @@ (groupId :> [emailed_member_ids |-> emailed,
                                introduction_email_sent_at |-> Timestamp,
                                status |-> "active"])

\* sendGroupIntroductionEmails of the cloud functions:
\* doc(group.group_id).update({...}), which fails when the document does
\* not exist
functions_UpdateEmailResult(groupId, emailed) ==
    IF groupId \in DOMAIN groups
    THEN [groups EXCEPT ![groupId] =
            [@ EXCEPT !.emailed_member_ids = emailed,
                      !.introduction_email_sent_at = Timestamp,
                      !.status = "active"]]
    ELSE groups

\* the addresses of memberDetails: the members whose profile exists and has
\* an email
memberDetails(member_ids) ==
    LET found == SelectSeq(member_ids,
                           LAMBDA s : /\ s \in DOMAIN profiles
                                      /\ Truthy(profiles[s].email))
    IN  [i \in 1..Len(found) |-> profiles[found[i]].email]

\* emailedMembers: the addresses resend.emails.send reported no error for.
\* The provider may fail for any member; the model takes the cases nobody,
\* the first member only, and everybody.
SendOutcomes(details) ==
    {<<>>, details} \cup {SubSeq(details, 1, Min(1, Len(details)))}

\* the request after its k-th group has been processed by the email loop
AfterEmail(rn, k) ==
    IF k = Len(rn.allGroups)
    THEN Finished([rn EXCEPT !.emailsProcessed = k])
    ELSE [rn EXCEPT !.emailsProcessed = k]

\* import('resend') fails: sendGroupEmailsJS returns at once
EmailsUnavailable(r) ==
    /\ run[r].pc = "sendEmails"
    /\ run' = [run EXCEPT ![r] = Finished(@)]
    /\ UNCHANGED <<profiles, groups, now, groupSeq, stats, daily, edit>>

\* RESEND_API_KEY is not configured: the simulated path, one group
SimulateGroupEmail(r) ==
    /\ run[r].pc \in {"sendEmails", "simulateEmails"}
    /\ LET k == run[r].emailsProcessed + 1
       IN  /\ groups' = MergeEmailResult(run[r].allGroups[k],
                                         run[r].plan[k].member_emails)
           /\ run' = [run EXCEPT ![r] =
                        AfterEmail([@ EXCEPT !.pc = "simulateEmails",
                                             !.provider = "simulated"], k)]
    /\ UNCHANGED <<profiles, now, groupSeq, stats, daily, edit>>

\* the simulated path: setDoc rejects, sendGroupEmailsJS throws and
\* runRealMatching continues after its catch
SimulateGroupEmailFails(r) ==
    /\ run[r].pc \in {"sendEmails", "simulateEmails"}
    /\ run' = [run EXCEPT ![r] = Finished([@ EXCEPT !.provider = "simulated"])]
    /\ UNCHANGED <<profiles, groups, now, groupSeq, stats, daily, edit>>

\* RESEND_API_KEY is configured: the emails of one group are sent and the
\* group is updated when at least one was accepted
SendGroupEmail(r) ==
    /\ run[r].pc \in {"sendEmails", "resendEmails"}
    /\ LET k == run[r].emailsProcessed + 1
       IN  /\ \E emailedMembers \in SendOutcomes(memberDetails(run[r].plan[k].member_ids)) :
                 groups' = IF Len(emailedMembers) > 0
                           THEN MergeEmailResult(run[r].allGroups[k], emailedMembers)
                           ELSE groups
           /\ run' = [run EXCEPT ![r] =
                        AfterEmail([@ EXCEPT !.pc = "resendEmails",
                                             !.provider = "resend"], k)]
    /\ UNCHANGED <<profiles, now, groupSeq, stats, daily, edit>>

----------------------------------------------------------------------------
(* GET /api/matching/stats *)

\* getStats counting every profile, eligible or not, in total_users
getStatsOfAllProfiles(t) ==
    LET allProfiles    == DocIds(profiles)
        eligibleUsers  == SelectSeq(allProfiles,
                                    LAMBDA s : profiles[s].matching_eligible = TRUE)
    IN  [total_users |-> Len(allProfiles),
         matched_users |-> Len(SelectSeq(eligibleUsers, LAMBDA s : HasGroupId(profiles[s].group_id))),
         unmatched_users |-> Len(SelectSeq(eligibleUsers, LAMBDA s : ~HasGroupId(profiles[s].group_id))),
         by_location |-> <<>>]

\* the stats object of getStats, computed from one read of the profiles
getStats(t) ==
    LET eligibleUsers  == SelectSeq(DocIds(profiles),
                                    LAMBDA s : profiles[s].matching_eligible = TRUE)
        matchedUsers   == SelectSeq(eligibleUsers,
                                    LAMBDA s : HasGroupId(profiles[s].group_id))
        unmatchedUsers == SelectSeq(eligibleUsers,
                                    LAMBDA s : ~HasGroupId(profiles[s].group_id))
        located        == SelectSeq(eligibleUsers,
                                    LAMBDA s : profiles[s].location # NoLocation)
        byLocation ==
            [locationKey \in {profiles[s].location : s \in Range(located)} |->
               LET here == SelectSeq(located,
                                     LAMBDA s : profiles[s].location = locationKey)
               IN  [total |-> Len(here),
                    matched |-> Len(SelectSeq(here, LAMBDA s : HasGroupId(profiles[s].group_id))),
                    unmatched |-> Len(SelectSeq(here, LAMBDA s : ~HasGroupId(profiles[s].group_id))),
                    by_life_stage |->
                       [lifeStage \in Range(LifeStages) |->
                          Len(SelectSeq(here, LAMBDA s :
                                   getLifeStageFromUserJS(profiles[s], t) = lifeStage))]]]
    IN  [total_users |-> Len(eligibleUsers),
         matched_users |-> Len(matchedUsers),
         unmatched_users |-> Len(unmatchedUsers),
         by_location |-> byLocation]

\* getMatchingStats of the database module
database_getMatchingStats(t) ==
    LET allProfiles    == DocIds(profiles)
        eligibleUsers  == SelectSeq(allProfiles, LAMBDA s : profiles[s].matching_eligible)
        matchedUsers   == SelectSeq(eligibleUsers,
                                    LAMBDA s : HasGroupId(profiles[s].group_id))
        unmatchedUsers == SelectSeq(eligibleUsers,
                                    LAMBDA s : ~HasGroupId(profiles[s].group_id))
        located        == SelectSeq(eligibleUsers,
                                    LAMBDA s : profiles[s].location # NoLocation)
        byLocation ==
            [locationKey \in {profiles[s].location : s \in Range(located)} |->
               LET here == SelectSeq(located,
                                     LAMBDA s : profiles[s].location = locationKey)
               IN  [total |-> Len(here),
                    matched |-> Len(SelectSeq(here, LAMBDA s : HasGroupId(profiles[s].group_id))),
                    unmatched |-> Len(SelectSeq(here, LAMBDA s : ~HasGroupId(profiles[s].group_id))),
                    by_life_stage |->
                       [lifeStage \in Range(LifeStages) |->
                          Len(SelectSeq(here, LAMBDA s :
                                   functions_getLifeStageFromUser(profiles[s], t) = lifeStage))]]]
    IN  [total_users |-> Len(eligibleUsers),
         matched_users |-> Len(matchedUsers),
         unmatched_users |-> Len(unmatchedUsers),
         by_location |-> byLocation]

\* getStats: the profiles are read and the stats are returned
GetStats ==
    /\ stats' = getStats(now)
    /\ UNCHANGED <<profiles, groups, run, now, groupSeq, daily, edit>>

----------------------------------------------------------------------------

Next ==
    \/ \E r \in Runs : RejectRun(r)
    \/ \E r \in Runs : StartRun(r)
    \/ \E r \in Runs : CreateGroup(r)
    \/ \E r \in Runs : CreateGroupFails(r)
    \/ \E r \in Runs : AssignUsers(r)
    \/ \E r \in Runs : AssignUsersFails(r)
    \/ \E r \in Runs : EmailsUnavailable(r)
    \/ \E r \in Runs : SimulateGroupEmail(r)
    \/ \E r \in Runs : SimulateGroupEmailFails(r)
    \/ \E r \in Runs : SendGroupEmail(r)
    \/ Tick

\* the matching requests alone (no stats request is made)
Spec == Init /\ [][Next]_vars

\* the populations the stats are requested for
StatsPopulations == {ToddlerPopulation} \cup VariedPopulations

StatsInit ==
    /\ Init
    /\ \E pop \in StatsPopulations : profiles = Collection(pop)

StatsNext ==
    \/ Next
    \/ GetStats

\* the matching requests together with stats requests at any time
StatsSpec == StatsInit /\ [][StatsNext]_vars

----------------------------------------------------------------------------
(* The scheduled job runDailyMatching of the cloud functions *)

\* the keys the job adds to its set `cities`, in insertion order
functions_cities(unmatchedUsers) ==
    LocationKeys(SelectSeq(unmatchedUsers,
                           LAMBDA s : profiles[s].location # NoLocation))

\* checkCityForMatching: some life stage counts at least 4 unmatched users
functions_checkCityForMatching(city, stateCode, t) ==
    LET users == functions_getUnmatchedUsers(city, stateCode)
    IN  \E lifeStage \in Range(LifeStages) :
           Len(SelectSeq(users, LAMBDA s :
                  functions_getLifeStageFromUser(profiles[s], t) = lifeStage)) >= 4

\* runDailyMatching up to its loop: the cities with unmatched users
DailyStart ==
    /\ daily.pc \in {"idle", "done"}
    /\ LET cities == functions_cities(functions_getUnmatchedUsers(undefined, undefined))
       IN  daily' = [pc |-> IF cities = <<>> THEN "done" ELSE "checking",
                     cities |-> cities, checked |-> 0, matched |-> {}]
    /\ UNCHANGED <<profiles, groups, run, now, groupSeq, stats, edit>>

\* one pass of the loop: the city is checked, and when it has enough users
\* the job logs that matching would run for it; nothing is written
DailyCheckCity ==
    /\ daily.pc = "checking"
    /\ LET location == daily.cities[daily.checked + 1]
           hasEnoughUsers ==
               functions_checkCityForMatching(location.city, location.state_code, now)
       IN  daily' = [daily EXCEPT
                        !.checked = @ + 1,
                        !.matched = IF hasEnoughUsers THEN @ \cup {location} ELSE @,
                        !.pc = IF daily.checked + 1 = Len(daily.cities)
                               THEN "done" ELSE "checking"]
    /\ UNCHANGED <<profiles, groups, run, now, groupSeq, stats, edit>>

\* one pass of the loop in which the query of checkCityForMatching rejects:
\* the error is logged and the loop goes on
DailyCheckCityFails ==
    /\ daily.pc = "checking"
    /\ daily' = [daily EXCEPT
                    !.checked = @ + 1,
                    !.pc = IF daily.checked + 1 = Len(daily.cities)
                           THEN "done" ELSE "checking"]
    /\ UNCHANGED <<profiles, groups, run, now, groupSeq, stats, edit>>

----------------------------------------------------------------------------
(* Administrative operations of the database module *)

\* session_id.startsWith('test-'): of SessionIds, all but the last
startsWithTest(sessionId) == sessionId # SessionIds[Len(SessionIds)]

\* updateUserGroupAssignment(sessionId, groupId) with the id of a group
UpdateUserGroupAssignment(sessionId, groupId) ==
    /\ profiles' = [profiles EXCEPT ![sessionId] =
                       [@ EXCEPT !.group_id = groupId, !.matched_at = Timestamp]]
    /\ UNCHANGED <<groups, run, now, groupSeq, stats, daily, edit>>

\* updateUserGroupAssignment(sessionId, null): the update holds
\* matched_at: undefined, a value setDoc rejects unless Firestore was set up
\* to ignore undefined properties, in which case the field is left as it is
ClearUserGroupAssignment(sessionId) ==
    /\ \/ profiles' = [profiles EXCEPT ![sessionId] = [@ EXCEPT !.group_id = nullId]]
       \/ profiles' = profiles
    /\ UNCHANGED <<groups, run, now, groupSeq, stats, daily, edit>>

\* cleanTestData on the emulator: one batch deletes the profiles whose
\* session_id starts with "test-" and the groups with test_mode == true
CleanTestData ==
    /\ profiles' = [s \in {d \in DOMAIN profiles : ~startsWithTest(d)} |-> profiles[s]]
    /\ groups' = [g \in {d \in DOMAIN groups :
                            ~("test_mode" \in DOMAIN groups[d] /\ groups[d].test_mode = TRUE)}
                    |-> groups[g]]
    /\ UNCHANGED <<run, now, groupSeq, stats, daily, edit>>

\* three seeded users and one user who signed up, toddlers of one city
AdminPopulation ==
    [s \in {SessionIds[1], SessionIds[2], SessionIds[3], SessionIds[14]} |->
        LET i == CHOOSE n \in 1..Len(SessionIds) : SessionIds[n] = s
        IN  Dad(i, Austin, <<Aged(18 + i)>>)]

AdminInit ==
    /\ profiles = AdminPopulation
    /\ groups = <<>>
    /\ run = [r \in Runs |-> IdleRun]
    /\ now = StartNow
    /\ groupSeq = 0
    /\ stats = NoStats
    /\ daily = NoDaily
    /\ edit = NoEdit

\* the users updateUserGroupAssignment is called for
AssignmentParams == {SessionIds[1], SessionIds[14]}

\* the steps of the requests (the month does not change)
RequestStep ==
    \E r \in Runs :
       \/ RejectRun(r)
       \/ StartRun(r)
       \/ CreateGroup(r)
       \/ CreateGroupFails(r)
       \/ AssignUsers(r)
       \/ AssignUsersFails(r)
       \/ EmailsUnavailable(r)
       \/ SimulateGroupEmail(r)
       \/ SimulateGroupEmailFails(r)
       \/ SendGroupEmail(r)

AdminNext ==
    \/ RequestStep
    \/ \E sessionId \in AssignmentParams \cap DOMAIN profiles, groupId \in DOMAIN groups :
          UpdateUserGroupAssignment(sessionId, groupId)
    \/ \E sessionId \in AssignmentParams \cap DOMAIN profiles :
          ClearUserGroupAssignment(sessionId)
    \/ CleanTestData

\* the matching requests together with the administrative operations
AdminSpec == AdminInit /\ [][AdminNext]_vars

\* five toddlers of one city, and four toddlers of one city and one of
\* another whose group_id was cleared
DailyPopulations ==
    { ToddlerPopulation,
      [i \in 1..5 |-> Unassigned(i, IF i = 3 THEN Miami ELSE Austin, <<Aged(18 + i)>>)] }

DailyInit ==
    /\ \E pop \in DailyPopulations : profiles = Collection(pop)
    /\ groups = <<>>
    /\ run = [r \in Runs |-> IdleRun]
    /\ now = StartNow
    /\ groupSeq = 0
    /\ stats = NoStats
    /\ daily = NoDaily
    /\ edit = NoEdit

DailyNext ==
    \/ RequestStep
    \/ DailyStart
    \/ DailyCheckCity
    \/ DailyCheckCityFails

\* the matching requests together with the daily job
DailySpec == DailyInit /\ [][DailyNext]_vars

----------------------------------------------------------------------------
(* updateProfile of the database module *)

\* a field that the object `updated` does not hold
Absent(field, value) ==
    /\ field \in {"location", "email", "group_id", "matched_at"}
    /\ value = Newcomer[field]

\* setDoc(ref, updated, { merge: true }): the fields of updated are written
merge(current, updated) ==
    [field \in DOMAIN current |->
        IF Absent(field, updated[field]) THEN current[field] ELSE updated[field]]

\* the user updateProfile is called for
EditParams == {SessionIds[5]}

\* updateProfile(sessionId, { matching_eligible }) up to its write: the
\* profile is read and the updates are spread over it
UpdateProfileRead(sessionId, matching_eligible) ==
    /\ edit.pc = "idle"
    /\ sessionId \in DOMAIN profiles
    /\ edit' = [pc |-> "setDoc", sessionId |-> sessionId,
                updated |-> [profiles[sessionId] EXCEPT
                               !.matching_eligible = matching_eligible]]
    /\ UNCHANGED <<profiles, groups, run, now, groupSeq, stats, daily>>

\* updateProfile: the setDoc with merge
UpdateProfileWrite ==
    /\ edit.pc = "setDoc"
    /\ profiles' = [profiles EXCEPT ![edit.sessionId] = merge(@, edit.updated)]
    /\ edit' = NoEdit
    /\ UNCHANGED <<groups, run, now, groupSeq, stats, daily>>

\* four toddlers of one city and a fifth whose onboarding is not complete
OnboardingPopulation ==
    [i \in 1..5 |-> IF i = 5 THEN Onboarding(i, Austin, <<Aged(18 + i)>>)
                             ELSE Dad(i, Austin, <<Aged(18 + i)>>)]

OnboardingInit ==
    /\ profiles = Collection(OnboardingPopulation)
    /\ groups = <<>>
    /\ run = [r \in Runs |-> IdleRun]
    /\ now = StartNow
    /\ groupSeq = 0
    /\ stats = NoStats
    /\ daily = NoDaily
    /\ edit = NoEdit

OnboardingNext ==
    \/ RequestStep
    \/ \E sessionId \in EditParams, matching_eligible \in BOOLEAN :
          UpdateProfileRead(sessionId, matching_eligible)
    \/ UpdateProfileWrite

\* the matching requests together with profile updates
OnboardingSpec == OnboardingInit /\ [][OnboardingNext]_vars

----------------------------------------------------------------------------
(* Notions the properties are stated in *)

GroupIds == DOMAIN groups

Members(g) == Range(groups[g].member_ids)

\* the groups request r has created so far
GroupsOf(r) == Range(run[r].allGroups)

\* the age in months, or the due month for an expecting dad, of user s at t
AgeOrDueMonth(s, t) ==
    LET child == profiles[s].children[1]
    IN  IF child.type = "expecting"
        THEN child.birth_year * 12 + child.birth_month
        ELSE (t.year * 12 + t.month) - (child.birth_year * 12 + child.birth_month)

Largest(S) == CHOOSE x \in S : \A y \in S : y <= x

Smallest(S) == CHOOSE x \in S : \A y \in S : x <= y

\* the gap in months between the oldest and the youngest of a set of users
Gap(S, t) ==
    Largest({AgeOrDueMonth(s, t) : s \in S}) - Smallest({AgeOrDueMonth(s, t) : s \in S})

\* the snapshot of request r holds only users of one city and one life stage
OneBucket(r) ==
    /\ run[r].unmatchedUsers # <<>>
    /\ LET first == profiles[run[r].unmatchedUsers[1]]
           stage == getLifeStageFromUserJS(first, run[r].now)
       IN  /\ first.location # NoLocation
           /\ stage # null
           /\ \A s \in Range(run[r].unmatchedUsers) :
                 /\ profiles[s].location = first.location
                 /\ getLifeStageFromUserJS(profiles[s], run[r].now) = stage

----------------------------------------------------------------------------
(* C1 - Disjointness: any two distinct committed groups have disjoint
   member_ids, so that no user is ever a member of, or assigned to, more than
   one group - also when run_matching invocations overlap. *)
Disjointness ==
    /\ \A g1, g2 \in GroupIds : g1 # g2 => Members(g1) \cap Members(g2) = {}
    /\ \A s \in DOMAIN profiles : \A g \in GroupIds :
          (HasGroupId(profiles[s].group_id) /\ s \in Members(g))
             => profiles[s].group_id = g

(* C2 - Re-check before the write: a request that is about to write a group
   whose chunk has a member that acquired a group_id since the snapshot
   creates no Group record, and no commit overwrites a group_id a member
   already has. *)
RecheckBeforeCommit ==
    [][\A r \in Runs :
          /\ ( /\ run[r].pc = "createGroup"
               /\ run'[r] # run[r]
               /\ \E s \in Range(run[r].plan[Len(run[r].allGroups) + 1].member_ids) :
                     HasGroupId(profiles[s].group_id) )
             => (groups' = groups /\ profiles' = profiles)
          /\ ( run[r].pc = "assignUsers" /\ run'[r] # run[r] )
             => \A s \in DOMAIN profiles :
                   HasGroupId(profiles[s].group_id)
                      => profiles'[s].group_id = profiles[s].group_id
      ]_vars

(* C3 - Atomic group commit: a persisted group exists only if every id in
   its member_ids has group_id equal to that group's id. *)
AtomicGroupCommit ==
    \A g \in GroupIds : \A s \in Members(g) : profiles[s].group_id = g

(* C4 - Size bound: every persisted group has between 4 and 6 member_ids,
   pairwise distinct. *)
SizeBound ==
    \A g \in GroupIds :
        /\ Len(groups[g].member_ids) >= 4
        /\ Len(groups[g].member_ids) <= 6
        /\ Cardinality(Members(g)) = Len(groups[g].member_ids)

\* a request formed a group of six and left over the last users of the
\* bucket, too few for a group
SizeBoundWitness ==
    \E r \in Runs :
        /\ run[r].pc = "done"
        /\ \E g \in GroupsOf(r) : Len(groups[g].member_ids) = 6
        /\ OneBucket(r)
        /\ run[r].result.users_unmatched > 0

(* C5 - Homogeneity: every group was created by a request, and all its
   members have the group's location and, at the time of that request, the
   group's life stage. *)
Homogeneity ==
    /\ \A g \in GroupIds : \E r \in Runs : g \in GroupsOf(r)
    /\ \A r \in Runs : \A g \in GroupsOf(r) : \A s \in Members(g) :
          /\ profiles[s].location = groups[g].location
          /\ getLifeStageFromUserJS(profiles[s], run[r].now) = groups[g].life_stage

\* a request grouped some users of its snapshot and not a user of another
\* city and a user of another life stage
HomogeneityWitness ==
    \E r \in Runs : \E g \in GroupsOf(r) :
        /\ \E s \in Range(run[r].unmatchedUsers) :
              /\ profiles[s].location \notin {NoLocation, groups[g].location}
              /\ getLifeStageFromUserJS(profiles[s], run[r].now) = groups[g].life_stage
        /\ \E s \in Range(run[r].unmatchedUsers) :
              /\ profiles[s].location = groups[g].location
              /\ getLifeStageFromUserJS(profiles[s], run[r].now)
                    \notin {null, groups[g].life_stage}

(* C6 - Threshold: the gap in months between the oldest and the youngest
   member of a group (age, or due month for Expecting) at the time of the
   request that created it never exceeds the maximum age gap. *)
Threshold ==
    \A r \in Runs : \A g \in GroupsOf(r) :
        Gap(Members(g), run[r].now) <= MaxAgeGap

\* the snapshot of request r is the scenario of the five toddlers
FiveToddlers(r) ==
    /\ Len(run[r].unmatchedUsers) = 5
    /\ OneBucket(r)
    /\ {AgeOrDueMonth(s, run[r].now) : s \in Range(run[r].unmatchedUsers)}
          = {19, 20, 21, 22, 36}
    /\ \A s \in Range(run[r].unmatchedUsers) :
          getLifeStageFromUserJS(profiles[s], run[r].now) = "Toddler"

(* C7 - Threshold-rejection scenario: a request whose snapshot is five
   toddlers of one city aged 19, 20, 21, 22 and 36 months creates no group. *)
ThresholdRejection ==
    \A r \in Runs :
        FiveToddlers(r) => (run[r].allGroups = <<>> /\ run[r].totalUsersMatched = 0)

(* C8 - Idempotence: a request that arrives after another request with the
   same scope has completed, in the same calendar month, returns
   groups_created = 0, creates no group and assigns no user. *)
Idempotence ==
    \A r1, r2 \in Runs :
        ( /\ r1 \in run[r2].after
          /\ run[r1].scope = run[r2].scope
          /\ run[r1].now = run[r2].now )
        => /\ run[r2].pc = "done"
           /\ run[r2].result.groups_created = 0
           /\ run[r2].result.users_matched = 0
           /\ run[r2].plan = <<>>
           /\ GroupsOf(r2) = {}
           /\ \A g \in GroupIds : g \in UNION {GroupsOf(q) : q \in Runs \ {r2}}

\* the first request created groups and left users over, the second one
\* found those users and created nothing
IdempotenceWitness ==
    \E r1, r2 \in Runs :
        /\ r1 \in run[r2].after
        /\ run[r1].scope = run[r2].scope
        /\ run[r1].now = run[r2].now
        /\ run[r1].result.groups_created > 0
        /\ run[r2].unmatchedUsers # <<>>
        /\ run[r2].pc = "done"

\* the snapshot of request r is thirteen users of one city and one life
\* stage whose ages are within the threshold
ThirteenInOneBucket(r) ==
    /\ Len(run[r].unmatchedUsers) = 13
    /\ OneBucket(r)
    /\ Gap(Range(run[r].unmatchedUsers), run[r].now) <= MaxAgeGap

\* seq lists users in ascending order of age
AscendingAge(seq, t) ==
    \A i, j \in 1..Len(seq) :
        i < j => AgeOrDueMonth(seq[i], t) <= AgeOrDueMonth(seq[j], t)

(* C9 - Coverage policy: a request whose snapshot is thirteen users of one
   bucket creates exactly two groups of six, the six youngest and the next
   six in ascending order of age, and leaves the oldest user unmatched. *)
CoveragePolicy ==
    \A r \in Runs :
        (run[r].pc = "done" /\ ThirteenInOneBucket(r))
        => /\ run[r].result.groups_created = 2
           /\ run[r].result.users_matched = 12
           /\ run[r].result.users_unmatched = 1
           /\ Len(run[r].allGroups) = 2
           /\ LET first  == groups[run[r].allGroups[1]].member_ids
                  second == groups[run[r].allGroups[2]].member_ids
                  rest   == Range(run[r].unmatchedUsers)
                               \ (Range(first) \cup Range(second))
              IN  /\ Len(first) = 6
                  /\ Len(second) = 6
                  /\ Cardinality(rest) = 1
                  /\ AscendingAge(first \o second, run[r].now)
                  /\ \A s \in Range(first) \cup Range(second) : \A u \in rest :
                        AgeOrDueMonth(s, run[r].now) <= AgeOrDueMonth(u, run[r].now)
                  /\ \A u \in rest : \A g \in GroupsOf(r) : u \notin Members(g)

\* a request over thirteen users of one bucket has completed
CoveragePolicyWitness ==
    \E r \in Runs :
        /\ run[r].pc = "done"
        /\ ThirteenInOneBucket(r)
        /\ run[r].result.groups_created = 2

\* the due date of user s is not later than that of user u
DueNoLater(s, u) ==
    LET a == profiles[s].children[1]
        b == profiles[u].children[1]
    IN  \/ a.birth_year < b.birth_year
        \/ a.birth_year = b.birth_year /\ a.birth_month <= b.birth_month

\* the snapshot of request r is four dads of one city due April to July 2025
FourExpecting(r) ==
    /\ Len(run[r].unmatchedUsers) = 4
    /\ OneBucket(r)
    /\ \A s \in Range(run[r].unmatchedUsers) :
          /\ profiles[s].children[1].type = "expecting"
          /\ profiles[s].children[1].birth_year = 2025
    /\ {profiles[s].children[1].birth_month : s \in Range(run[r].unmatchedUsers)}
          = {4, 5, 6, 7}

(* C10 - Expecting sort: the member_ids of every Expecting group are in
   ascending order of due date, whatever the order the users were read in;
   four dads due April, May, June and July 2025 form one group whose
   member_ids are in that order. *)
ExpectingSort ==
    /\ \A g \in GroupIds :
          groups[g].life_stage = "Expecting"
          => \A i, j \in 1..Len(groups[g].member_ids) :
                i < j => DueNoLater(groups[g].member_ids[i], groups[g].member_ids[j])
    /\ \A r \in Runs :
          (run[r].pc = "done" /\ FourExpecting(r))
          => /\ Len(run[r].allGroups) = 1
             /\ [i \in 1..4 |->
                   profiles[groups[run[r].allGroups[1]].member_ids[i]].children[1].birth_month]
                  = <<4, 5, 6, 7>>

\* the four dads were read in another order than that of their due dates
ExpectingSortWitness ==
    \E r \in Runs :
        /\ run[r].pc = "done"
        /\ FourExpecting(r)
        /\ Len(run[r].allGroups) = 1
        /\ groups[run[r].allGroups[1]].member_ids # run[r].unmatchedUsers

----------------------------------------------------------------------------
\* user s is the only eligible user without a group in the city of s
OnlyUnmatchedInCity(s) ==
    /\ profiles[s].matching_eligible = TRUE
    /\ ~HasGroupId(profiles[s].group_id)
    /\ profiles[s].location # NoLocation
    /\ \A u \in DOMAIN profiles \ {s} :
          ( /\ profiles[u].matching_eligible = TRUE
            /\ ~HasGroupId(profiles[u].group_id) )
          => profiles[u].location # profiles[s].location

(* C11 - Scattered control: a user who is the only eligible unmatched user
   of their city is not assigned a group_id by any step of any request, so
   that the user remains among the unmatched users. *)
ScatteredControl ==
    [][\A s \in DOMAIN profiles :
          OnlyUnmatchedInCity(s) => ~HasGroupId(profiles'[s].group_id)]_vars

\* a request parameter is missing or empty
Missing(param) == param \in {undefined, ""}

(* C12 - Scope validation: a request with exactly one of city and stateCode
   (the other missing or empty) gets a validation error, a request with both
   or neither gets none; a rejected request has read no user, and the step
   that rejects it changes no group and no user. *)
ScopeValidation ==
    /\ [](/\ \A city \in CityParams, stateCode \in StateCodeParams :
                (ValidationError(city, stateCode) # undefined)
                   <=> (Missing(city) # Missing(stateCode))
          /\ \A r \in Runs :
                /\ run[r].pc = "rejected"
                   => /\ run[r].error # undefined
                      /\ run[r].now = NoTime
                      /\ run[r].unmatchedUsers = <<>>
                      /\ run[r].plan = <<>>
                      /\ run[r].allGroups = <<>>
                /\ run[r].pc \notin {"idle", "rejected"} => run[r].error = undefined)
    /\ [][\A r \in Runs :
             (run[r].pc = "idle" /\ run'[r].pc = "rejected")
                => (profiles' = profiles /\ groups' = groups)]_vars

\* one request was rejected for its missing city while groups exist that
\* another request created
ScopeValidationWitness ==
    \E r1, r2 \in Runs :
        /\ run[r1].pc = "rejected"
        /\ run[r1].error = "city is required when stateCode is provided"
        /\ run[r2].pc = "done"
        /\ run[r2].scope = Austin
        /\ run[r2].result.groups_created > 0

\* the users the eligibility filter is to select for a scope: eligible,
\* without a group (group_id absent or null), and of the scope when one is given
Candidates(city, stateCode) ==
    {s \in DOMAIN profiles :
        /\ profiles[s].matching_eligible = TRUE
        /\ profiles[s].group_id \in {undefinedId, nullId}
        /\ (~Missing(city) /\ ~Missing(stateCode))
              => profiles[s].location = [city |-> city, state_code |-> stateCode]}

(* C13 - Eligibility filter: for every scope, each implementation of the
   unmatched-user query (API, database module, cloud function) selects
   exactly the eligible users without a group, a user with an absent
   group_id being treated like one whose group_id is null. *)
EligibilityFilter ==
    \A city \in CityParams, stateCode \in StateCodeParams :
        ValidationError(city, stateCode) = undefined
        => /\ Range(getUnmatchedUsersJS(city, stateCode)) = Candidates(city, stateCode)
           /\ Range(database_getUnmatchedUsers(city, stateCode)) = Candidates(city, stateCode)
           /\ Range(functions_getUnmatchedUsers(city, stateCode)) = Candidates(city, stateCode)

\* the months between the birth of a child and the calendar month t
MonthsOld(child, t) ==
    (t.year - child.birth_year) * 12 + (t.month - child.birth_month)

\* the life stage of a child list at t, by cases
Classification(children, t) ==
    IF children = <<>> THEN null
    ELSE LET first == children[1]
             age   == MonthsOld(first, t)
         IN  CASE first.type = "expecting" -> "Expecting"
               [] first.type # "expecting" /\ age <= 6 -> "Newborn"
               [] first.type # "expecting" /\ 6 < age /\ age <= 18 -> "Infant"
               [] first.type # "expecting" /\ 18 < age /\ age <= 36 -> "Toddler"
               [] first.type # "expecting" /\ age > 36 -> null

(* C14 - Life-stage classification: the life stage of a user at a calendar
   month is decided by the first child alone: expecting gives Expecting,
   otherwise an age of at most 6 months gives Newborn, of 7 to 18 Infant, of
   19 to 36 Toddler, and an older child or no child gives no life stage; the
   API and the cloud functions classify alike. *)
LifeStageClassification ==
    \A s \in DOMAIN profiles :
        LET t == now
        IN  /\ getLifeStageFromUserJS(profiles[s], t)
                  = Classification(profiles[s].children, t)
            /\ functions_getLifeStageFromUser(profiles[s], t)
                  = Classification(profiles[s].children, t)
            /\ profiles[s].children # <<>>
                  => getLifeStageFromUserJS(profiles[s], t)
                       = getLifeStageFromUserJS(
                            [profiles[s] EXCEPT !.children = <<profiles[s].children[1]>>], t)

\* a request has classified a child of exactly 18 months as Infant and one
\* of more than 36 months as without life stage
LifeStageClassificationWitness ==
    \E r \in Runs : \E s, u \in Range(run[r].unmatchedUsers) :
        /\ profiles[s].children # <<>> /\ profiles[u].children # <<>>
        /\ MonthsOld(profiles[s].children[1], run[r].now) = 18
        /\ MonthsOld(profiles[u].children[1], run[r].now) > 36
        /\ profiles[u].children[1].type = "existing"
        /\ run[r].pc = "done"
        /\ \E g \in GroupsOf(r) : s \in Members(g) /\ groups[g].life_stage = "Infant"

\* the eligible users
Eligible == {s \in DOMAIN profiles : profiles[s].matching_eligible = TRUE}

\* the eligible users that have a group
Matched == {s \in Eligible : profiles[s].group_id \notin {undefinedId, nullId}}

\* a stats object whose totals are the sums of its parts
Balanced(st) ==
    /\ st.total_users = st.matched_users + st.unmatched_users
    /\ \A l \in DOMAIN st.by_location :
          st.by_location[l].total
             = st.by_location[l].matched + st.by_location[l].unmatched

(* C15 - Stats contract: the stats count the eligible users, those of them
   with a group_id as matched and the rest as unmatched, so that every total
   is matched plus unmatched, overall and per location; a stats request
   changes no user and no group, whatever the matching requests are doing. *)
StatsContract ==
    /\ [](/\ Balanced(stats)
          /\ Balanced(getStats(now))
          /\ Balanced(database_getMatchingStats(now))
          /\ getStats(now).total_users = Cardinality(Eligible)
          /\ getStats(now).matched_users = Cardinality(Matched)
          /\ getStats(now).unmatched_users = Cardinality(Eligible \ Matched)
          /\ database_getMatchingStats(now) = getStats(now))
    /\ [][stats' # stats
            => /\ stats'.total_users = Cardinality(Eligible)
               /\ stats'.matched_users = Cardinality(Matched)
               /\ stats'.unmatched_users = Cardinality(Eligible \ Matched)
               /\ profiles' = profiles
               /\ groups' = groups
               /\ run' = run]_vars

\* stats were returned, with matched and unmatched users, while a request
\* is between creating a group and assigning its members
StatsContractWitness ==
    /\ stats # NoStats
    /\ stats.matched_users > 0
    /\ stats.unmatched_users > 0
    /\ stats.total_users < Cardinality(DOMAIN profiles)
    /\ \E r \in Runs : run[r].pc = "assignUsers"

\* the request r takes a step in which a member of group g is notified:
\* the provider accepted an email for at least one member
Notifies(r, g) ==
    /\ run'[r].provider = "resend"
    /\ run'[r].emailsProcessed = run[r].emailsProcessed + 1
    /\ run[r].allGroups[run'[r].emailsProcessed] = g
    /\ groups'[g].emailed_member_ids # <<>>

(* C16 - Group status protocol: a group is created pending; it becomes
   active only in a step that notified at least one of its members; it is
   never inactive and never goes from active back to pending; and no step
   changes the member_ids of a group or removes a group or a member's
   group_id (no rollback). *)
GroupStatusProtocol ==
    /\ [](\A g \in DOMAIN groups : groups[g].status \in {"pending", "active"})
    /\ [][/\ \A g \in DOMAIN groups' \ DOMAIN groups : groups'[g].status = "pending"
          /\ \A g \in DOMAIN groups :
                /\ g \in DOMAIN groups'
                /\ groups'[g].member_ids = groups[g].member_ids
                /\ groups[g].status = "active" => groups'[g].status = "active"
                /\ (groups[g].status = "pending" /\ groups'[g].status = "active")
                      => \E r \in Runs : Notifies(r, g)
          /\ \A s \in DOMAIN profiles :
                profiles[s].group_id \notin {undefinedId, nullId}
                   => profiles'[s].group_id \notin {undefinedId, nullId}]_vars

(* C17 - In every state the emailed_member_ids of every group are among
   the member_ids of that group. *)
EmailedAreMembers ==
    \A g \in DOMAIN groups :
       \A i \in DOMAIN groups[g].emailed_member_ids :
          \E j \in DOMAIN groups[g].member_ids :
             groups[g].emailed_member_ids[i] = groups[g].member_ids[j]

(* C18 - Test mode sends no email: the groups of a request made with
   testMode = true are marked test_mode, and the email provider delivers
   no email of such a request to any member. *)
TestModeSendsNoEmail ==
    \A r \in Runs :
       run[r].testMode
          => /\ \A k \in DOMAIN run[r].allGroups :
                   run[r].allGroups[k] \in DOMAIN groups
                      => /\ groups[run[r].allGroups[k]].test_mode = TRUE
                         /\ k <= run[r].emailsProcessed /\ run[r].provider = "resend"
                               => groups[run[r].allGroups[k]].emailed_member_ids = <<>>

\* the users of the snapshot of request r that live at location and are
\* in lifeStage when the request is made
SnapshotBucket(r, location, lifeStage) ==
    {s \in Range(run[r].unmatchedUsers) :
        /\ profiles[s].location = location
        /\ Classification(profiles[s].children, run[r].now) = lifeStage}

\* request r passed validation and none of its buckets reaches 4 users
\* (none at all when its snapshot is empty)
NoBucketReachesMinimum(r) ==
    /\ run[r].pc \notin {"idle", "rejected"}
    /\ \A s \in Range(run[r].unmatchedUsers) :
          LET lifeStage == Classification(profiles[s].children, run[r].now)
          IN  (profiles[s].location # NoLocation /\ lifeStage \in Range(LifeStages))
                 => Cardinality(SnapshotBucket(r, profiles[s].location, lifeStage)) < 4

(* C19 - When a request finds no eligible unmatched user, or none of its
   buckets reaches 4 users, it returns normally with groups_created = 0,
   users_matched = 0, an empty groups list and a summary, and the step that
   serves it leaves every user and every group unchanged. *)
NothingToMatch ==
    /\ [](\A r \in Runs :
             \/ /\ run[r].pc = "done"
                /\ run[r].result.groups_created = 0
                /\ run[r].result.users_matched = 0
                /\ run[r].result.groups = <<>>
                /\ run[r].result.summary # <<>>
                /\ run[r].allGroups = <<>>
             \/ ~NoBucketReachesMinimum(r))
    /\ [][\A r \in Runs :
             (run[r].pc = "idle" /\ NoBucketReachesMinimum(r)')
                => (profiles' = profiles /\ groups' = groups)]_vars

\* one request found no unmatched user, another found some but no bucket
\* of 4, and both have returned
NothingToMatchWitness ==
    \E r1, r2 \in Runs :
       /\ run[r1].pc = "done" /\ run[r1].unmatchedUsers = <<>>
       /\ run[r2].pc = "done" /\ Len(run[r2].unmatchedUsers) >= 2
       /\ NoBucketReachesMinimum(r2)
       /\ run[r2].result.groups_created = 0

\* a step of the group commit: a request leaves assignUsersToGroupJS
GroupCommitStep ==
    \E r \in Runs : run[r].pc = "assignUsers" /\ run'[r].pc # "assignUsers"

(* C20 - Once a user has a group_id, no step of the engine (a further
   request, the notification, a stats request) clears it or replaces it by
   another value, and the only steps that write group_id or matched_at are
   those of the group commit. *)
GroupIdIsStable ==
    [][\A s \in DOMAIN profiles :
          /\ s \in DOMAIN profiles'
          /\ profiles[s].group_id \notin {undefinedId, nullId}
                => /\ profiles'[s].group_id = profiles[s].group_id
                   /\ profiles'[s].matched_at = profiles[s].matched_at
          /\ ( \/ profiles'[s].group_id # profiles[s].group_id
               \/ profiles'[s].matched_at # profiles[s].matched_at )
                => GroupCommitStep
      ]_vars

\* the member_ids of the group document g (a document written only by
\* the notification has none)
MemberIdsOf(g) ==
    IF "member_ids" \in DOMAIN groups[g] THEN Range(groups[g].member_ids) ELSE {}

(* C21 - Membership consistency: in every state a user has group_id = g if
   and only if a group g exists and has the user among its member_ids -
   also after updateUserGroupAssignment and cleanTestData. *)
MembershipConsistency ==
    \A s \in DOMAIN profiles :
       /\ profiles[s].group_id \notin {undefinedId, nullId}
             => /\ profiles[s].group_id \in DOMAIN groups
                /\ s \in MemberIdsOf(profiles[s].group_id)
       /\ \A g \in DOMAIN groups :
             s \in MemberIdsOf(g) => profiles[s].group_id = g

\* the group document after with at most the three fields of the
\* notification differing from the document before
OnlyEmailResultDiffers(before, after) ==
    after = [before EXCEPT !.emailed_member_ids = after.emailed_member_ids,
                           !.introduction_email_sent_at = after.introduction_email_sent_at,
                           !.status = after.status]

(* C22 - The member_ids of a group never change after the group is created:
   every step (of a request, of the notification, of a stats request) keeps
   every group and its member_ids, a step that changes a group document
   changes emailed_member_ids, introduction_email_sent_at and status only,
   and the same holds for the update the cloud function makes. *)
MemberIdsImmutable ==
    /\ [](\A g \in DOMAIN groups :
             \A emailed \in SendOutcomes(memberDetails(groups[g].member_ids)) :
                OnlyEmailResultDiffers(groups[g],
                                       functions_UpdateEmailResult(g, emailed)[g]))
    /\ [][\A g \in DOMAIN groups :
             /\ g \in DOMAIN groups'
             /\ groups'[g].member_ids = groups[g].member_ids
             /\ OnlyEmailResultDiffers(groups[g], groups'[g])]_vars

\* a group has been notified, a request that started after the request
\* that created it has returned, and stats were requested
MemberIdsImmutableWitness ==
    /\ stats # NoStats
    /\ \E r1, r2 \in Runs :
          /\ r1 \in run[r2].after
          /\ run[r2].pc = "done"
          /\ run[r2].unmatchedUsers # <<>>
          /\ \E g \in Range(run[r1].allGroups) :
                /\ groups[g].status = "active"
                /\ groups[g].emailed_member_ids # <<>>

\* request r takes a step of its group commit in which the write fails:
\* it was about to write a group or its members, and nothing is written
CommitFails(r) ==
    /\ run[r].pc \in {"createGroup", "assignUsers"}
    /\ run'[r] # run[r]
    /\ profiles' = profiles
    /\ groups' = groups

(* C23 - Partial commit failure is local: when the commit of one group
   fails, the request goes on with its next chunk, or with the notification
   when that was the last chunk, and returns a normal result; it does not
   end in an error. *)
CommitFailureIsLocal ==
    /\ [](\A r \in Runs : run[r].pc # "failed")
    /\ [][\A r \in Runs :
             CommitFails(r) => run'[r].pc \in {"createGroup", "sendEmails", "done"}]_vars

\* request r arrives in this step
Arrives(r) == run[r].pc = "idle" /\ run'[r].pc # "idle"

(* C24 - Idempotent resumption: when a request has failed, every group it
   wrote has all its members assigned to it, and a request that arrives
   afterwards plans no group with a user that a group already lists. *)
ResumptionIsIdempotent ==
    /\ [](\A r \in Runs :
             run[r].pc = "failed"
                => \A g \in Range(run[r].allGroups) :
                      \A s \in Range(groups[g].member_ids) :
                         profiles[s].group_id \notin {undefinedId, nullId})
    /\ [][\A r1, r2 \in Runs :
             (run[r1].pc = "failed" /\ Arrives(r2))
                => \A k \in DOMAIN run'[r2].plan :
                      \A g \in DOMAIN groups :
                         Range(run'[r2].plan[k].member_ids)
                            \cap Range(groups[g].member_ids) = {}]_vars

\* the eligible users without a group in the state after the step
UnmatchedAfter ==
    {s \in DOMAIN profiles' :
        /\ profiles'[s].matching_eligible = TRUE
        /\ profiles'[s].group_id \in {undefinedId, nullId}}

\* the users of UnmatchedAfter in the city and the life stage of user s
BucketAfter(s) ==
    {u \in UnmatchedAfter :
        /\ profiles'[u].location = profiles'[s].location
        /\ Classification(profiles'[u].children, now')
              = Classification(profiles'[s].children, now')}

(* C25 - Daily sweep: when an execution of the daily job completes, the
   users of every city that had 4 unmatched eligible users in one life-stage
   bucket have been grouped: no bucket of 4 or more unmatched eligible users
   is left; and the job changes no user of a city it skips. *)
DailySweep ==
    [][(daily.pc # "done" /\ daily'.pc = "done")
          => /\ \A s \in UnmatchedAfter :
                   ( /\ profiles'[s].location # NoLocation
                     /\ Classification(profiles'[s].children, now')
                           \in Range(LifeStages) )
                      => Cardinality(BucketAfter(s)) < 4
             /\ \A s \in DOMAIN profiles :
                   profiles[s].location \notin daily'.matched
                      => profiles'[s] = profiles[s]]_vars

\* the users of the snapshot of request r that have no location or no
\* life stage when the request is made
IsDropped(r, s) ==
    \/ profiles[s].location = NoLocation
    \/ Classification(profiles[s].children, run[r].now) \notin Range(LifeStages)

Dropped(r) == {s \in Range(run[r].unmatchedUsers) : IsDropped(r, s)}

\* the users of the snapshot of request r that are in none of its groups
LeftUnmatched(r) ==
    {s \in Range(run[r].unmatchedUsers) :
        \A g \in Range(run[r].allGroups) : s \notin Range(groups[g].member_ids)}

(* C26 - The users of a snapshot without location or life stage are dropped:
   the request puts none of them into a group and changes none of their
   records, it does not fail when it finds only such users, and its result
   counts them in users_unmatched. *)
DroppedUsers ==
    /\ [](\A r \in Runs :
             /\ \A g \in Range(run[r].allGroups) :
                   \A s \in Range(groups[g].member_ids) : ~IsDropped(r, s)
             /\ run[r].pc = "done"
                   => run[r].result.users_unmatched = Cardinality(LeftUnmatched(r))
             /\ run[r].pc \notin {"idle", "rejected", "done"}
                   => \E s \in Range(run[r].unmatchedUsers) : ~IsDropped(r, s))
    /\ [][\A r \in Runs :
             (profiles' # profiles /\ run'[r] # run[r])
                => \A s \in Dropped(r) : profiles'[s] = profiles[s]]_vars

\* a request has returned that created a group and whose snapshot held a
\* user whose first child was older than 36 months
DroppedUsersWitness ==
    \E r \in Runs :
       /\ run[r].pc = "done"
       /\ run[r].result.groups_created > 0
       /\ run[r].result.users_unmatched > 0
       /\ \E s \in Dropped(r) :
             /\ profiles[s].location # NoLocation
             /\ profiles[s].children # <<>>
             /\ profiles[s].group_id = undefinedId

\* the place of user s in the snapshot of request r
PlaceInSnapshot(r, s) ==
    CHOOSE i \in 1..Len(run[r].unmatchedUsers) : run[r].unmatchedUsers[i] = s

\* the age in months of the first child of user s when request r was made
AgeAtRun(r, s) ==
    (run[r].now.year - profiles[s].children[1].birth_year) * 12
       + (run[r].now.month - profiles[s].children[1].birth_month)

(* C27 - Age sort: the members of a Newborn, Infant or Toddler group a
   request creates are in ascending order of age, members of the same age
   in the order in which the snapshot lists them; and of two groups a
   request forms from one bucket, no member of the earlier is older than a
   member of the later. *)
AgeSort ==
    [][\A r \in Runs :
          Len(run'[r].allGroups) > Len(run[r].allGroups)
             => LET k == Len(run'[r].allGroups)
                    g == groups'[run'[r].allGroups[k]]
                IN  g.life_stage # "Expecting"
                       => /\ \A i, j \in DOMAIN g.member_ids :
                                i < j
                                   => \/ AgeAtRun(r, g.member_ids[i])
                                            < AgeAtRun(r, g.member_ids[j])
                                      \/ /\ AgeAtRun(r, g.member_ids[i])
                                               = AgeAtRun(r, g.member_ids[j])
                                         /\ PlaceInSnapshot(r, g.member_ids[i])
                                               < PlaceInSnapshot(r, g.member_ids[j])
                          /\ \A n \in 1..(k - 1) :
                                LET earlier == groups'[run'[r].allGroups[n]]
                                IN  ( /\ earlier.location = g.location
                                      /\ earlier.life_stage = g.life_stage )
                                       => \A s \in Range(earlier.member_ids),
                                             u \in Range(g.member_ids) :
                                                AgeAtRun(r, s) <= AgeAtRun(r, u)
      ]_vars

\* a request has formed two groups from one bucket, and the snapshot lists
\* two members of one group, who have the same age, with an older user
\* between them
AgeSortWitness ==
    \E r \in Runs :
       /\ run[r].pc = "done"
       /\ Len(run[r].allGroups) = 2
       /\ groups[run[r].allGroups[1]].life_stage = "Newborn"
       /\ groups[run[r].allGroups[2]].life_stage = "Newborn"
       /\ \E s, u \in Range(groups[run[r].allGroups[1]].member_ids) :
             /\ s # u
             /\ AgeAtRun(r, s) = AgeAtRun(r, u)
             /\ \E v \in Range(run[r].unmatchedUsers) :
                   /\ PlaceInSnapshot(r, s) < PlaceInSnapshot(r, v)
                   /\ PlaceInSnapshot(r, v) < PlaceInSnapshot(r, u)
                   /\ AgeAtRun(r, v) > AgeAtRun(r, s)

\* the sum of the numbers of members of the groups of a list
RECURSIVE MemberCount(_)
MemberCount(groupIds) ==
    IF groupIds = <<>> THEN 0
    ELSE Len(groups[Head(groupIds)].member_ids) + MemberCount(Tail(groupIds))

\* the users whose group_id the step changes
Assigned == {s \in DOMAIN profiles : profiles'[s].group_id # profiles[s].group_id}

(* C28 - Run result accounting: in the result of a completed request
   groups_created is the number of entries of groups, users_matched is the
   sum of the member counts of those groups, and users_matched plus
   users_unmatched is the size of the snapshot; and the count of matched
   users grows by exactly the users whose group_id a step of the request
   sets. *)
ResultAccounting ==
    /\ [](\A r \in Runs :
             run[r].pc = "done"
                => /\ run[r].result.groups_created = Len(run[r].result.groups)
                   /\ run[r].result.users_matched = MemberCount(run[r].result.groups)
                   /\ run[r].result.users_matched + run[r].result.users_unmatched
                         = Len(run[r].unmatchedUsers)
                   /\ run[r].result.users_matched = run[r].totalUsersMatched)
    /\ [][\A r \in Runs :
             run'[r] # run[r]
                => /\ run'[r].totalUsersMatched - run[r].totalUsersMatched
                         = Cardinality(Assigned)
                   /\ \A s \in Assigned :
                         /\ run'[r].allGroups # <<>>
                         /\ profiles'[s].group_id
                               = run'[r].allGroups[Len(run'[r].allGroups)]]_vars

\* a request has returned that matched some users of its snapshot in a
\* group that is not full and left others unmatched
ResultAccountingWitness ==
    \E r \in Runs :
       /\ run[r].pc = "done"
       /\ run[r].result.groups_created = 1
       /\ run[r].result.users_matched \in {4, 5}
       /\ run[r].result.users_unmatched >= 2

\* request r was made for one city
Scoped(r) ==
    /\ run[r].pc \notin {"idle", "rejected"}
    /\ run[r].scope # NoLocation

(* C29 - Scoped run frame: a request made for a city creates only groups
   located in that city, and its steps leave group_id and matched_at of
   every user located elsewhere, or nowhere, unchanged. *)
ScopedRunFrame ==
    /\ [](\A r \in Runs :
             Scoped(r)
                => /\ \A s \in Range(run[r].unmatchedUsers) :
                         profiles[s].location = run[r].scope
                   /\ \A g \in Range(run[r].allGroups) :
                         /\ groups[g].location = run[r].scope
                         /\ \A s \in Range(groups[g].member_ids) :
                               profiles[s].location = run[r].scope)
    /\ [][\A r \in Runs :
             (profiles' # profiles /\ run'[r] # run[r] /\ Scoped(r))
                => \A s \in DOMAIN profiles :
                      profiles[s].location # run[r].scope
                         => /\ profiles'[s].group_id = profiles[s].group_id
                            /\ profiles'[s].matched_at = profiles[s].matched_at]_vars

\* a request made for Austin has created a group and has returned while
\* four toddlers of Miami are without a group
ScopedRunFrameWitness ==
    \E r \in Runs :
       /\ Scoped(r)
       /\ run[r].pc = "done"
       /\ run[r].result.groups_created = 1
       /\ Cardinality({s \in DOMAIN profiles :
                          /\ profiles[s].location # run[r].scope
                          /\ profiles[s].location # NoLocation
                          /\ profiles[s].group_id = undefinedId
                          /\ Classification(profiles[s].children, run[r].now)
                                = "Toddler"}) = 4

(* C30 - Only eligible users are grouped: every user a step gives a
   group_id has matching_eligible = true at that moment, and was eligible
   in the snapshot of the request that takes the step. *)
OnlyEligibleGrouped ==
    [][\A s \in DOMAIN profiles :
          ( /\ profiles'[s].group_id # profiles[s].group_id
            /\ profiles'[s].group_id \notin {undefinedId, nullId} )
             => /\ profiles[s].matching_eligible = TRUE
                /\ \E r \in Runs :
                      /\ run'[r] # run[r]
                      /\ s \in Range(run[r].unmatchedUsers)]_vars

====
